---- MODULE Spec2Model ----
(***************************************************************************)
(* State-machine model of whatsapp_web_py: the Client session controller   *)
(* (client.py), its event bus (pyee AsyncIOEventEmitter as used by          *)
(* Client._emit), and the entity normalizers (structures.py).               *)
(*                                                                         *)
(* Coroutines are modelled at their real suspension points: an action is   *)
(* everything a coroutine does between two awaits that give control back   *)
(* to the event loop.  Client._emit never suspends (pyee's emit returns a  *)
(* bool, so the `await result` branch is dead), hence a handler such as    *)
(* _handle_qr is one atomic action.                                        *)
(***************************************************************************)
EXTENDS Integers, Sequences, FiniteSets, TLC

(* ------------------------------ bounds -------------------------------- *)
MaxRetries == 2      \* qr_max_retries is drawn from 0..MaxRetries
MaxNotes == 4        \* notifications the bridge delivers to the client
MaxCalls == 1        \* public request operations started
MaxDestroy == 2      \* destroy() calls
MaxSubs == 2         \* handlers subscribed with on()
MaxArgs == 3         \* length of ClientOptions.browser_args
MaxAuths == 2        \* PickleAuth instances made for one session directory
MaxMsgs == 2         \* new messages the page observes
MaxInits == 2        \* browser launches of one client (initialize() calls reaching line 61)

(* --------------------------- events.py -------------------------------- *)
QR == "qr"
AUTHENTICATED == "authenticated"
READY == "ready"
MESSAGE == "message"
MESSAGE_CREATED == "message_create"
STATE_CHANGED == "change_state"
DISCONNECTED == "disconnected"
ALL_EVENTS == {QR, AUTHENTICATED, READY, MESSAGE, MESSAGE_CREATED, STATE_CHANGED, DISCONNECTED}

\* pyee's reserved kind: an exception of a handler is re-emitted as "error"
ERROR == "error"
SubKinds == ALL_EVENTS \cup {ERROR}

\* What a subscribed handler does when called: return, raise, or (a coroutine
\* function) return a coroutine object.
HandlerTypes == {"sync", "raises", "coro"}

VARIABLES
    qr_max_retries,   \* ClientOptions.qr_max_retries
    playwright,       \* Client.playwright is set
    context,          \* Client.context is set
    page,             \* Client.page is set
    store_ready,      \* Client._store_ready
    synced_emitted,   \* Client._synced_emitted
    qr_retries,       \* Client._qr_retries
    ctxOpen,          \* engine: the browsing context is alive
    exposed,          \* engine: names registered with page.expose_function
    bridge,           \* page: the AuthStore listeners of _inject are installed
    qrListening,      \* page: the change:ref listener is installed
    initPc,           \* position of the initialize() coroutine
    destroyPc,        \* position of the destroy() coroutine
    teardown,         \* teardown steps attempted by the current/last destroy()
    held,             \* handles held when the current/last destroy() was called
    syn,              \* _handle_synced coroutines that passed the gate of line 198
    calls,            \* public request operations, one record per invocation
    injectedBy,       \* callers that evaluated ExposeStore on this page
    subs,             \* event kind -> handlers in subscription order
    tasks,            \* coroutine handlers scheduled on the loop, FIFO
    log,              \* every emit() made by Client._emit, in order
    raised,           \* coroutines that raised to their caller
    nQr, nSynced, syncedIn, nLogout, nState, nDestroy,
    payload,          \* a raw payload handed to a normalizer
    entity,           \* what the normalizer made of it
    auth_strategy,    \* ClientOptions.auth_strategy, by class name
    browser_args,     \* ClientOptions.browser_args
    launches,         \* args of each launch_persistent_context call
    pickle_file,      \* the snapshot file of PickleAuth
    auth_context,     \* PickleAuth._context is set
    stored,           \* cookies and local storage of the browser profile
    created,          \* PickleAuth.create_context calls and what each replayed
    save,             \* the current/last save_session() call
    nAuth,            \* PickleAuth instances made so far
    msgListeners,     \* page: Store.Msg 'add' listeners installed by line 168
    hookCalls,        \* message-hook calls the page made, not yet handled
    msgs              \* fromMe of each new message the page observed

vars == <<qr_max_retries, playwright, context, page, store_ready, synced_emitted,
          qr_retries, ctxOpen, exposed, bridge, qrListening, initPc, destroyPc,
          teardown, held, syn, calls, injectedBy, subs, tasks, log, raised,
          nQr, nSynced, syncedIn, nLogout, nState, nDestroy, payload, entity,
          auth_strategy, browser_args, launches, pickle_file, auth_context,
          stored, created, save, nAuth, msgListeners, hookCalls, msgs>>

handles == <<playwright, context, page>>
engine == <<ctxOpen, exposed, bridge, qrListening, msgListeners>>
counters == <<nQr, nSynced, syncedIn, nLogout, nState, nDestroy>>
destroyVars == <<destroyPc, teardown, held>>
busVars == <<subs, tasks, log>>
normVars == <<payload, entity>>
authVars == <<auth_strategy, browser_args, launches, pickle_file, auth_context,
              stored, created, save, nAuth>>
msgVars == <<hookCalls, msgs>>

(* ----------------------- the event bus: pyee -------------------------- *)
\* AsyncIOEventEmitter._emit_run on handler i of `funcs`, and the handlers after
\* it (EventEmitter._call_handlers walks them in subscription order).  A handler
\* that raises is re-emitted as "error"; emit("error", exc) with no "error"
\* listener raises exc, which leaves the loop over the handlers.  A coroutine
\* handler is wrapped with ensure_future and not awaited.
RECURSIVE CallHandlers(_, _, _, _)
CallHandlers(funcs, i, errHandled, acc) ==
    IF i > Len(funcs) THEN acc
    ELSE LET t == funcs[i]
             ran == Append(acc.ran, i)
         IN  IF t = "raises"
             THEN IF errHandled
                  THEN CallHandlers(funcs, i + 1, errHandled, [acc EXCEPT !.ran = ran])
                  ELSE [acc EXCEPT !.ran = ran, !.exc = TRUE]
             ELSE IF t = "coro"
             THEN CallHandlers(funcs, i + 1, errHandled,
                               [acc EXCEPT !.ran = ran, !.sched = Append(acc.sched, i)])
             ELSE CallHandlers(funcs, i + 1, errHandled, [acc EXCEPT !.ran = ran])

\* self.emit(event, *args): what it did.  ran: handlers called, in order;
\* sched: coroutine handlers scheduled; exc: an exception left emit().
PyeeEmit(s, kind) ==
    CallHandlers(s[kind], 1, s[ERROR] # <<>>, [ran |-> <<>>, sched |-> <<>>, exc |-> FALSE])

\* Client._emit without its try/except.
EmitReraises(exc) == exc

\* Client._emit's try/except: an exception of emit() is logged, not raised.
EmitPropagates(exc) == FALSE

\* Client._emit awaits the result of emit() only if it is a coroutine; pyee's
\* emit returns a bool, so scheduled handlers are left pending on the loop.
EmitAwaits(result) == FALSE

\* One Client._emit(kind, arg) applied to the bus state b = [log, tasks, exc].
Emit(b, kind, arg) ==
    LET r == PyeeEmit(subs, kind)
        n == Len(b.log) + 1
        entry == [kind |-> kind, arg |-> arg, n |-> Len(subs[kind]), ran |-> r.ran]
        newTasks == [j \in 1..Len(r.sched) |-> [emission |-> n, kind |-> kind, handler |-> r.sched[j]]]
    IN  [log |-> Append(b.log, entry),
         tasks |-> IF EmitAwaits(r) THEN b.tasks ELSE b.tasks \o newTasks,
         exc |-> b.exc \/ (r.exc /\ EmitPropagates(r.exc))]

Bus == [log |-> log, tasks |-> tasks, exc |-> FALSE]

\* The bus after an atomic run of handler `name` that made the emissions in b.
Publish(b, name) ==
    /\ log' = b.log
    /\ tasks' = b.tasks
    /\ raised' = IF b.exc THEN raised \cup {name} ELSE raised

(* ------------------- Client._bootstrap_store -------------------------- *)
\* The five engine calls of _bootstrap_store, named by their source line; a
\* coroutine at pc "b162" waits for the result of line 162's evaluate.
BootPcs == {"b162", "b163", "b165", "b166", "b168"}

BootNext(pc) ==
    CASE pc = "b162" -> "b163"
      [] pc = "b163" -> "b165"
      [] pc = "b165" -> "b166"
      [] pc = "b166" -> "b168"
      [] pc = "b168" -> "ret"

\* What the engine can answer: a call on a closed context fails, any call may.
EngineAnswers == IF ctxOpen THEN BOOLEAN ELSE {FALSE}

\* page.expose_function raises when the name is already registered on the page.
BootCallOk(pc, ok) ==
    /\ ok
    /\ pc = "b165" => "_py_on_message" \notin exposed
    /\ pc = "b166" => "_py_on_message_created" \notin exposed

BootExposed(pc, okc) ==
    IF okc /\ pc = "b165" THEN exposed \cup {"_py_on_message"}
    ELSE IF okc /\ pc = "b166" THEN exposed \cup {"_py_on_message_created"}
    ELSE exposed

\* Line 160: the flag is read on entry; line 181: it is written after the
\* last engine call has returned.
BootSkips(flag) == flag

\* The flag written as soon as the first injection has answered.
BootFlagEarly(pc, okc) == store_ready \/ (okc /\ pc = "b162")

BootFlagAfter(pc, okc) == store_ready \/ (okc /\ pc = "b168")

\* The engine side of one bootstrap step made by caller `who`.
BootEngine(pc, okc, who) ==
    /\ exposed' = BootExposed(pc, okc)
    /\ injectedBy' = IF okc /\ pc = "b162" THEN Append(injectedBy, who) ELSE injectedBy
    /\ msgListeners' = IF okc /\ pc = "b168" THEN msgListeners + 1 ELSE msgListeners
    /\ UNCHANGED <<ctxOpen, bridge, qrListening>>

(* ----------------------- bridge notifications ------------------------- *)
\* The page calls an exposed hook: its listeners are installed and alive.
Delivers == bridge /\ nQr + nSynced + nLogout + nState < MaxNotes

\* The limit compared with > instead of >=.
QrLimitOffByOne(max, retries) == max # 0 /\ retries > max

\* Line 187: the retry limit, 0 meaning unlimited.
QrLimitReached(max, retries) == max # 0 /\ retries >= max

\* Client._handle_qr, lines 186-192.  No await in it gives control away.
HandleQr ==
    /\ Delivers /\ qrListening
    /\ nQr' = nQr + 1
    /\ IF QrLimitReached(qr_max_retries, qr_retries)
       THEN /\ Publish(Emit(Bus, DISCONNECTED, "qr_max_retries"), "_handle_qr")
            /\ UNCHANGED qr_retries
       ELSE /\ qr_retries' = qr_retries + 1
            /\ Publish(Emit(Bus, QR, "qr"), "_handle_qr")
    /\ UNCHANGED <<normVars, authVars, msgVars, qr_max_retries, handles, store_ready, synced_emitted, engine, initPc,
                   destroyVars, syn, calls, injectedBy, subs, nSynced, syncedIn, nLogout, nState, nDestroy>>

\* Client._handle_state_change, lines 194-195.
HandleStateChange ==
    /\ Delivers
    /\ nState' = nState + 1
    /\ Publish(Emit(Bus, STATE_CHANGED, "state"), "_handle_state_change")
    /\ UNCHANGED <<normVars, authVars, msgVars, qr_max_retries, handles, store_ready, synced_emitted, qr_retries, engine,
                   initPc, destroyVars, syn, calls, injectedBy, subs, nQr, nSynced, syncedIn, nLogout, nDestroy>>

\* A logout that emits only while no DISCONNECTED event has been emitted.
HandleLogoutOnce ==
    /\ Delivers
    /\ nLogout' = nLogout + 1
    /\ IF \E j \in 1..Len(log) : log[j].kind = DISCONNECTED
       THEN UNCHANGED <<log, tasks, raised>>
       ELSE Publish(Emit(Bus, DISCONNECTED, "LOGOUT"), "_handle_logout")
    /\ UNCHANGED <<normVars, authVars, msgVars, qr_max_retries, handles, store_ready, synced_emitted, qr_retries, engine,
                   initPc, destroyVars, syn, calls, injectedBy, subs, nQr, nSynced, syncedIn, nState, nDestroy>>

\* Client._handle_logout, lines 205-206; the bridge passes 'LOGOUT' (line 144).
HandleLogout ==
    /\ Delivers
    /\ nLogout' = nLogout + 1
    /\ Publish(Emit(Bus, DISCONNECTED, "LOGOUT"), "_handle_logout")
    /\ UNCHANGED <<normVars, authVars, msgVars, qr_max_retries, handles, store_ready, synced_emitted, qr_retries, engine,
                   initPc, destroyVars, syn, calls, injectedBy, subs, nQr, nSynced, syncedIn, nState, nDestroy>>

\* The two emissions in the other order.
SyncedEmissionsSwapped == <<READY, AUTHENTICATED>>

\* Lines 202-203: what _handle_synced emits once the bootstrap has returned.
SyncedEmissions == <<AUTHENTICATED, READY>>

RECURSIVE EmitAll(_, _)
EmitAll(b, kinds) ==
    IF kinds = <<>> THEN b ELSE EmitAll(Emit(b, Head(kinds), ""), Tail(kinds))

\* The flag left unset until after the bootstrap's awaits.
SyncedFlagDeferred == FALSE

\* Line 200: the value written to _synced_emitted before the first await.
SyncedFlagOnAccept == TRUE

\* Client._handle_synced from its entry to its first suspension, lines 197-201.
\* An invocation that finds the flag set returns at once (line 199).
SyncedCall(via) ==
    IF synced_emitted
    THEN UNCHANGED <<syn, synced_emitted, log, tasks, raised>>
    ELSE /\ synced_emitted' = SyncedFlagOnAccept
         /\ IF BootSkips(store_ready)
            THEN /\ syn' = Append(syn, [via |-> via, pc |-> "done"])
                 /\ Publish(EmitAll(Bus, SyncedEmissions), "_handle_synced")
            ELSE /\ syn' = Append(syn, [via |-> via, pc |-> "b162"])
                 /\ UNCHANGED <<log, tasks, raised>>

\* The bridge's change:hasSynced listener calls _py_on_synced (line 143).
HandleSynced ==
    /\ Delivers
    /\ nSynced' = nSynced + 1
    /\ syncedIn' = Len(launches)
    /\ SyncedCall("bridge")
    /\ UNCHANGED <<normVars, authVars, msgVars, qr_max_retries, handles, store_ready, qr_retries, engine, initPc,
                   destroyVars, calls, injectedBy, subs, nQr, nLogout, nState, nDestroy>>

\* A suspended _handle_synced resumes with the answer to its engine call; after
\* the last one it sets the flag and emits without suspending again.
SyncedStep(i) ==
    /\ syn[i].pc \in BootPcs
    /\ \E ok \in EngineAnswers :
         LET pc == syn[i].pc
             okc == BootCallOk(pc, ok)
         IN  /\ BootEngine(pc, okc, "synced")
             /\ store_ready' = BootFlagAfter(pc, okc)
             /\ IF ~okc
                THEN /\ syn' = [syn EXCEPT ![i].pc = "raised"]
                     /\ raised' = raised \cup {"_handle_synced"}
                     /\ UNCHANGED <<log, tasks>>
                ELSE IF BootNext(pc) = "ret"
                THEN /\ syn' = [syn EXCEPT ![i].pc = "done"]
                     /\ Publish(EmitAll(Bus, SyncedEmissions), "_handle_synced")
                ELSE /\ syn' = [syn EXCEPT ![i].pc = BootNext(pc)]
                     /\ UNCHANGED <<log, tasks, raised>>
    /\ UNCHANGED <<normVars, authVars, msgVars, qr_max_retries, handles, synced_emitted, qr_retries, initPc, destroyVars,
                   calls, subs, counters>>


(* ---------------------- public request operations --------------------- *)
Ops == {"send_message", "get_chats", "get_contacts", "get_chat_by_id", "get_message_by_id"}
ListOps == {"get_chats", "get_contacts"}

\* What the bridge's evaluate gives back: null, an empty value (an empty list
\* or object), a non-empty value; "error" is the engine call raising.
EvalResults == {"null", "empty", "value"}

\* The return statement of each operation, lines 240, 245, 250, 255, 263.
\* `X.from_js(r) if r else None` maps a falsy result to None; the list
\* comprehensions of get_chats/get_contacts iterate the result, which raises
\* TypeError on None.
Return(op, r) ==
    IF r = "error" THEN "raised"
    ELSE IF op \in ListOps
    THEN CASE r = "null" -> "raised"
           [] r = "empty" -> "empty"
           [] r = "value" -> "list"
    ELSE CASE r = "null" -> "None"
           [] r = "empty" -> "None"
           [] r = "value" -> "entity"

NewCall(op, pc, out) == [op |-> op, pc |-> pc, res |-> "-", out |-> out]

\* A public operation from its entry to its first suspension: send_message
\* checks the page (line 224); each then awaits _bootstrap_store, whose first
\* engine call needs the page; with the flag set it goes on to its evaluate.
CallStart(op) ==
    /\ Len(calls) < MaxCalls
    /\ calls' = Append(calls,
                  IF ~page THEN NewCall(op, "done", "raised")
                  ELSE IF BootSkips(store_ready) THEN NewCall(op, "eval", "-")
                  ELSE NewCall(op, "b162", "-"))
    /\ raised' = IF ~page THEN raised \cup {op} ELSE raised
    /\ UNCHANGED <<normVars, authVars, msgVars, qr_max_retries, handles, store_ready, synced_emitted, qr_retries, engine,
                   initPc, destroyVars, syn, injectedBy, busVars, counters>>

\* A public operation suspended in _bootstrap_store resumes.
CallStep(i) ==
    /\ calls[i].pc \in BootPcs
    /\ \E ok \in EngineAnswers :
         LET pc == calls[i].pc
             okc == BootCallOk(pc, ok)
         IN  /\ BootEngine(pc, okc, "call")
             /\ store_ready' = BootFlagAfter(pc, okc)
             /\ IF ~okc
                THEN /\ calls' = [calls EXCEPT ![i].pc = "done", ![i].out = "raised"]
                     /\ raised' = raised \cup {calls[i].op}
                ELSE /\ calls' = [calls EXCEPT ![i].pc =
                                    IF BootNext(pc) = "ret" THEN "eval" ELSE BootNext(pc)]
                     /\ UNCHANGED raised
    /\ UNCHANGED <<normVars, authVars, msgVars, qr_max_retries, handles, synced_emitted, qr_retries, initPc, destroyVars,
                   syn, busVars, counters>>

\* The operation's own evaluate answers and the operation returns.
CallEval(i) ==
    /\ calls[i].pc = "eval"
    /\ \E r \in (IF ctxOpen THEN EvalResults \cup {"error"} ELSE {"error"}) :
         /\ calls' = [calls EXCEPT ![i].pc = "done", ![i].res = r,
                                   ![i].out = Return(calls[i].op, r)]
         /\ raised' = IF Return(calls[i].op, r) = "raised"
                      THEN raised \cup {calls[i].op} ELSE raised
    /\ UNCHANGED <<normVars, authVars, msgVars, qr_max_retries, handles, store_ready, synced_emitted, qr_retries, engine,
                   initPc, destroyVars, syn, injectedBy, busVars, counters>>

(* ------------------------------- auth.py ------------------------------ *)
BlinkFlag == "--disable-blink-features=AutomationControlled"
BlinkFlagLonger == "--disable-blink-features=AutomationControlled,Translate"

\* The browser arguments tried; two of them contain the text that line 58 of
\* client.py looks for.
ArgValues == {"--a", "--b", BlinkFlag, BlinkFlagLonger}
ArgLists == UNION {[1..n -> ArgValues] : n \in 0..MaxArgs}

\* "disable-blink-features=AutomationControlled" in a
ContainsBlink(a) == a \in {BlinkFlag, BlinkFlagLonger}

\* client.py lines 57-59: the flag is appended unless some argument has it.
InitializeArgs(args) ==
    IF \E i \in 1..Len(args) : ContainsBlink(args[i]) THEN args ELSE Append(args, BlinkFlag)

\* The loop of _dedupe_args, lines 19-21, from args[i] on.
RECURSIVE DedupeFrom(_, _, _)
DedupeFrom(args, i, deduped) ==
    IF i > Len(args) THEN deduped
    ELSE DedupeFrom(args, i + 1,
                    IF \E j \in 1..Len(deduped) : deduped[j] = args[i]
                    THEN deduped ELSE Append(deduped, args[i]))

DedupeArgsKeepsAll(args) == args

\* _dedupe_args, lines 15-22.
DedupeArgs(args) == DedupeFrom(args, 1, <<>>)

\* What a browsing context stores: cookies, and the local storage of the
\* WhatsApp Web origin as name/value items in insertion order.
WebOrigin == "https://web.whatsapp.com"
BlankOrigin == "about:blank"
CookieValues == {"sid"}
Item(n, v) == [name |-> n, value |-> v]
ItemLists == {<<>>, <<Item("k1", "v1")>>, <<Item("k2", "v2"), Item("k1", "v1")>>}
StoredStates == [cookies : SUBSET CookieValues, localStorage : ItemLists]
NoStored == [cookies |-> {}, localStorage |-> <<>>]

\* BrowserContext.storage_state() (Playwright): the cookies, and one entry per
\* origin that has local storage, its items a list of {name, value}.
StorageState(st) ==
    [kind |-> "state",
     cookies |-> st.cookies,
     origins |-> IF st.localStorage = <<>> THEN <<>>
                 ELSE <<[origin |-> WebOrigin, localStorage |-> st.localStorage]>>]

\* What pickle.load can hand back: nothing, a storage state, or some other
\* object that a damaged file happens to decode to.
NoState == [kind |-> "none", cookies |-> {}, origins |-> <<>>]
Garbage == [kind |-> "garbage", cookies |-> {}, origins |-> <<>>]

\* The snapshot file session.pkl (line 93).
FileBytes == {"missing", "empty", "partial", "unreadable", "garbage", "complete"}
File(bytes, data) == [bytes |-> bytes, data |-> data]
NoFile == File("missing", NoState)
Complete(data) == File("complete", data)
SnapshotFiles ==
    {File(b, NoState) : b \in FileBytes \ {"complete"}}
        \cup {Complete(StorageState(st)) : st \in StoredStates}

\* Lines 108-115: open() or pickle.load() raises on a file that cannot be read
\* or decoded; the except clause turns that into "no snapshot".
LoadRaises(f) == f.bytes \in {"empty", "partial", "unreadable"}
SnapshotLoadReraises(exc) == exc
SnapshotLoadPropagates(exc) == FALSE
LoadSnapshot(f) ==
    IF f.bytes = "missing" \/ LoadRaises(f) THEN NoState
    ELSE IF f.bytes = "garbage" THEN Garbage
    ELSE f.data

\* Line 128: `if storage_state:`.  Lines 131, 135: `"cookies" in storage_state`
\* raises on an object that is no container, caught at line 150.
HasSnapshot(st) == st.kind # "none"
ReplayRaises(st) == st.kind = "garbage"

\* Lines 139-147: the page function walks Object.entries(items), which for a
\* list gives the index as key and the {name, value} object as value;
\* localStorage.setItem stores both as strings, under the page's origin.
ReplayedItems(pageOrigin, items) ==
    {[origin |-> pageOrigin, name |-> ToString(i - 1), value |-> "[object Object]"] :
        i \in 1..Len(items)}

\* The cookies and local-storage entries a snapshot holds, per origin.
SnapshotCookies(st) == st.cookies
SnapshotItems(st) ==
    UNION {{[origin |-> st.origins[o].origin,
             name |-> st.origins[o].localStorage[i].name,
             value |-> st.origins[o].localStorage[i].value] :
                i \in 1..Len(st.origins[o].localStorage)} : o \in 1..Len(st.origins)}

\* Lines 127-151: what create_context replays of the loaded snapshot.  The
\* context's pages are on about:blank; evaluate on such a page may be refused
\* (caught at line 148).
Replay(st, evalOk) ==
    IF ~HasSnapshot(st) \/ ReplayRaises(st) THEN [cookies |-> {}, items |-> {}]
    ELSE [cookies |-> st.cookies,
          items |-> IF evalOk
                    THEN UNION {ReplayedItems(BlankOrigin, st.origins[o].localStorage) :
                                    o \in 1..Len(st.origins)}
                    ELSE {}]

NoCreate ==
    [inst |-> 0, file |-> NoFile, engineOk |-> FALSE, returned |-> FALSE,
     replayed |-> [cookies |-> {}, items |-> {}]]
NoSave == [pc |-> "idle", inst |-> 0, prev |-> NoFile, captured |-> FALSE, data |-> NoState]
SaveRunning == save.pc \in {"state", "open", "dump"}

\* save_session() from its entry to its first suspension, lines 157-161:
\* nothing to do without a context, otherwise it awaits the storage state.
SaveCall ==
    save' = [pc |-> IF auth_context THEN "state" ELSE "skipped", inst |-> nAuth,
             prev |-> pickle_file, captured |-> FALSE, data |-> NoState]

\* AuthStrategy.create_context(args=args): LocalAuth, lines 55-73, and
\* PickleAuth, lines 96-153.  `ok` is whether launch_persistent_context
\* succeeds; `launches` gets the arguments it is called with and `created`
\* records the last call of PickleAuth's.
CreateReturns(ok) ==
    ok /\ ~(auth_strategy = "PickleAuth" /\ SnapshotLoadPropagates(LoadRaises(pickle_file)))

CreateContext(args, ok) ==
    /\ launches' = IF CreateReturns(ok) \/ ~ok
                   THEN Append(launches, DedupeArgs(args)) ELSE launches
    /\ IF auth_strategy = "PickleAuth"
       THEN /\ auth_context' = (auth_context \/ CreateReturns(ok))
            /\ \E evalOk \in BOOLEAN :
                 created' =
                    [inst |-> nAuth, file |-> pickle_file, engineOk |-> ok,
                     returned |-> CreateReturns(ok),
                     replayed |-> IF CreateReturns(ok)
                                  THEN Replay(LoadSnapshot(pickle_file), evalOk)
                                  ELSE Replay(NoState, FALSE)]
       ELSE UNCHANGED <<auth_context, created>>
    /\ UNCHANGED <<auth_strategy, browser_args, pickle_file, stored, save, nAuth>>

(* --------------------------- Client.initialize ------------------------ *)
InjectHooks == {"_py_on_qr", "_py_on_state", "_py_on_synced", "_py_on_logout"}

InitFails ==
    /\ initPc' = "failed"
    /\ raised' = raised \cup {"initialize"}

\* Line 56: the engine starts.  initialize() is called once, and not while
\* destroy() runs.
InitStart ==
    /\ initPc = "idle" /\ destroyPc = "idle"
    /\ \E ok \in BOOLEAN :
         IF ok THEN /\ playwright' = TRUE /\ initPc' = "ctx" /\ UNCHANGED raised
         ELSE /\ InitFails /\ UNCHANGED playwright
    /\ UNCHANGED <<normVars, authVars, msgVars, qr_max_retries, context, page, store_ready, synced_emitted, qr_retries,
                   engine, destroyVars, syn, calls, injectedBy, busVars, counters>>

\* initialize() called again as if on a newly constructed client: the session
\* flags and the retry counter start over.
InitAgainFresh ==
    /\ initPc \in {"done", "failed"} /\ destroyPc = "idle"
    /\ ~context /\ Len(launches) < MaxInits
    /\ store_ready' = FALSE /\ synced_emitted' = FALSE /\ qr_retries' = 0
    /\ \E ok \in BOOLEAN :
         IF ok THEN /\ playwright' = TRUE /\ initPc' = "ctx" /\ UNCHANGED raised
         ELSE /\ InitFails /\ UNCHANGED playwright
    /\ UNCHANGED <<normVars, authVars, msgVars, qr_max_retries, context, page,
                   engine, destroyVars, syn, calls, injectedBy, busVars, counters>>

\* Line 56 again: initialize() called once more on the same client, whose
\* context is None (never created, or closed by destroy()).  initialize()
\* assigns playwright, context and page only (lines 56-69); the session flags
\* and the retry counter are written nowhere in it.
InitAgain ==
    /\ initPc \in {"done", "failed"} /\ destroyPc = "idle"
    /\ ~context /\ Len(launches) < MaxInits
    /\ \E ok \in BOOLEAN :
         IF ok THEN /\ playwright' = TRUE /\ initPc' = "ctx" /\ UNCHANGED raised
         ELSE /\ InitFails /\ UNCHANGED playwright
    /\ UNCHANGED <<normVars, authVars, msgVars, qr_max_retries, context, page, store_ready, synced_emitted, qr_retries,
                   engine, destroyVars, syn, calls, injectedBy, busVars, counters>>

\* Lines 57-68: the auth strategy creates the browsing context.
InitContext ==
    /\ initPc = "ctx"
    /\ \E ok \in BOOLEAN :
         /\ CreateContext(InitializeArgs(browser_args), ok)
         /\ IF CreateReturns(ok)
            THEN /\ context' = TRUE /\ ctxOpen' = TRUE /\ exposed' = {}
                 /\ injectedBy' = <<>> /\ msgListeners' = 0
                 /\ initPc' = "page" /\ UNCHANGED raised
            ELSE /\ InitFails /\ UNCHANGED <<context, ctxOpen, exposed, injectedBy, msgListeners>>
    /\ UNCHANGED <<normVars, msgVars, qr_max_retries, playwright, page, store_ready, synced_emitted, qr_retries,
                   bridge, qrListening, destroyVars, syn, calls, busVars, counters>>

\* Line 69: the context's first page, or a new one.
InitPage ==
    /\ initPc = "page"
    /\ \E ok \in EngineAnswers :
         IF ok THEN /\ page' = TRUE /\ initPc' = "nav" /\ UNCHANGED raised
         ELSE /\ InitFails /\ UNCHANGED page
    /\ UNCHANGED <<normVars, authVars, msgVars, qr_max_retries, playwright, context, store_ready, synced_emitted,
                   qr_retries, engine, destroyVars, syn, calls, injectedBy, busVars, counters>>

\* Lines 71-77: the init scripts and the navigation.
InitNavigate ==
    /\ initPc = "nav"
    /\ \E ok \in EngineAnswers :
         IF ok THEN /\ initPc' = "inject" /\ UNCHANGED raised
         ELSE InitFails
    /\ UNCHANGED <<normVars, authVars, msgVars, qr_max_retries, handles, store_ready, synced_emitted, qr_retries, engine,
                   destroyVars, syn, calls, injectedBy, busVars, counters>>

\* _inject, lines 104-147: the four hooks are exposed and the page script
\* installs its listeners; the change:ref listener only if the page is not yet
\* paired (line 137).
InitInject ==
    /\ initPc = "inject"
    /\ \E ok \in EngineAnswers :
         IF ok THEN /\ exposed' = exposed \cup InjectHooks
                    /\ bridge' = TRUE
                    /\ qrListening' \in BOOLEAN
                    /\ initPc' = "state"
                    /\ UNCHANGED raised
         ELSE /\ InitFails /\ UNCHANGED <<exposed, bridge, qrListening>>
    /\ UNCHANGED msgListeners
    /\ UNCHANGED <<normVars, authVars, msgVars, qr_max_retries, handles, store_ready, synced_emitted, qr_retries, ctxOpen,
                   destroyVars, syn, calls, injectedBy, busVars, counters>>

\* _inject, lines 149-157: a page already past pairing is treated as synced;
\* initialize() then awaits _handle_synced, which returns at once if the flag
\* is already set.
InitState ==
    /\ initPc = "state"
    /\ \E ok \in EngineAnswers, past \in BOOLEAN :
         IF ~ok THEN /\ ~past /\ InitFails /\ UNCHANGED <<syn, synced_emitted, log, tasks>>
         ELSE IF past THEN /\ SyncedCall("inject")
                           /\ initPc' = IF synced_emitted THEN "done" ELSE "synced"
         ELSE /\ initPc' = "done" /\ UNCHANGED <<syn, synced_emitted, log, tasks, raised>>
    /\ UNCHANGED <<normVars, authVars, msgVars, qr_max_retries, handles, store_ready, qr_retries, engine, destroyVars,
                   calls, injectedBy, subs, counters>>

\* initialize() returns, or raises, when the _handle_synced it awaits does.
InitAwait ==
    /\ initPc = "synced"
    /\ \E i \in 1..Len(syn) :
         /\ syn[i].via = "inject"
         /\ \/ /\ syn[i].pc = "done"
               /\ initPc' = "done" /\ UNCHANGED raised
            \/ /\ syn[i].pc = "raised"
               /\ InitFails
    /\ UNCHANGED <<normVars, authVars, msgVars, qr_max_retries, handles, store_ready, synced_emitted, qr_retries, engine,
                   destroyVars, syn, calls, injectedBy, busVars, counters>>

(* ----------------------------- Client.destroy ------------------------- *)
\* One try/except around the three steps: a failure skips the rest.
TeardownStopsAtFailure(step, ok) ==
    IF ~ok THEN "idle"
    ELSE CASE step = "close" -> "stop"
           [] step = "stop" -> "auth"
           [] step = "auth" -> "idle"

\* Each of the three steps sits in a try/except of its own (lines 81-98):
\* whatever a step's outcome, the next one follows and nothing is raised.
TeardownNext(step, ok) ==
    CASE step = "close" -> "stop"
      [] step = "stop" -> "auth"
      [] step = "auth" -> "idle"

TeardownPropagates(step, ok) == FALSE

DestroyEnds(step, ok) ==
    /\ destroyPc' = TeardownNext(step, ok)
    /\ nDestroy' = IF TeardownNext(step, ok) = "idle" THEN nDestroy + 1 ELSE nDestroy
    /\ raised' = IF TeardownPropagates(step, ok) THEN raised \cup {"destroy"} ELSE raised

\* Lines 81-86: close the context if one is held.
DestroyClose ==
    /\ destroyPc = "idle" /\ nDestroy < MaxDestroy
    /\ initPc \in {"idle", "done", "failed"}
    /\ held' = [context |-> context, playwright |-> playwright]
    /\ IF context
       THEN \E ok \in BOOLEAN :
              /\ teardown' = <<[step |-> "close", ok |-> ok]>>
              /\ context' = (context /\ ~ok)
              /\ ctxOpen' = (ctxOpen /\ ~ok)
              /\ bridge' = (bridge /\ ~ok)
              /\ qrListening' = (qrListening /\ ~ok)
              /\ DestroyEnds("close", ok)
       ELSE /\ teardown' = <<>>
            /\ UNCHANGED <<context, ctxOpen, bridge, qrListening>>
            /\ DestroyEnds("close", TRUE)
    /\ UNCHANGED <<normVars, authVars, msgVars, qr_max_retries, playwright, page, store_ready, synced_emitted, qr_retries,
                   exposed, msgListeners, initPc, syn, calls, injectedBy, busVars,
                   nQr, nSynced, syncedIn, nLogout, nState>>

\* Lines 88-93: stop the engine if it was started; a stopped engine takes its
\* browser along.
DestroyStop ==
    /\ destroyPc = "stop"
    /\ IF playwright
       THEN \E ok \in BOOLEAN :
              /\ teardown' = Append(teardown, [step |-> "stop", ok |-> ok])
              /\ playwright' = (playwright /\ ~ok)
              /\ ctxOpen' = (ctxOpen /\ ~ok)
              /\ bridge' = (bridge /\ ~ok)
              /\ qrListening' = (qrListening /\ ~ok)
              /\ DestroyEnds("stop", ok)
       ELSE /\ UNCHANGED <<teardown, playwright, ctxOpen, bridge, qrListening>>
            /\ DestroyEnds("stop", TRUE)
    /\ UNCHANGED <<normVars, authVars, msgVars, qr_max_retries, context, page, store_ready, synced_emitted, qr_retries,
                   exposed, msgListeners, initPc, held, syn, calls, injectedBy, busVars,
                   nQr, nSynced, syncedIn, nLogout, nState>>

\* Lines 95-98: the auth strategy's destroy(), always called.  LocalAuth's
\* (auth.py 75-76, or any other strategy's) returns or raises at once;
\* PickleAuth's (auth.py 168-172) awaits save_session() if it holds a context
\* and changes nothing else.
DestroyAuth ==
    /\ destroyPc = "auth"
    /\ IF auth_strategy = "PickleAuth"
       THEN IF auth_context
            THEN /\ ~SaveRunning
                 /\ SaveCall
                 /\ destroyPc' = "saving"
                 /\ UNCHANGED <<teardown, nDestroy, raised>>
            ELSE /\ teardown' = Append(teardown, [step |-> "auth", ok |-> TRUE])
                 /\ DestroyEnds("auth", TRUE)
                 /\ UNCHANGED save
       ELSE /\ \E ok \in BOOLEAN :
                 /\ teardown' = Append(teardown, [step |-> "auth", ok |-> ok])
                 /\ DestroyEnds("auth", ok)
            /\ UNCHANGED save
    /\ UNCHANGED <<auth_strategy, browser_args, launches, pickle_file, auth_context, stored, created, nAuth>>
    /\ UNCHANGED <<normVars, msgVars, qr_max_retries, handles, store_ready, synced_emitted, qr_retries, engine,
                   initPc, held, syn, calls, injectedBy, busVars, nQr, nSynced, syncedIn, nLogout, nState>>

\* The save_session() awaited by PickleAuth.destroy() has ended, with the
\* snapshot written or the error logged (auth.py 165-166): destroy() returns.
DestroyAuthReturns ==
    /\ destroyPc = "saving" /\ ~SaveRunning
    /\ teardown' = Append(teardown, [step |-> "auth", ok |-> TRUE])
    /\ DestroyEnds("auth", TRUE)
    /\ UNCHANGED <<normVars, authVars, msgVars, qr_max_retries, handles, store_ready, synced_emitted, qr_retries, engine,
                   initPc, held, syn, calls, injectedBy, busVars, nQr, nSynced, syncedIn, nLogout, nState>>

(* ------------------------ structures.py: from_js ---------------------- *)
\* Python values, tagged by type; a dict is a function from its keys.
None == [t |-> "none"]
Str(s) == [t |-> "str", s |-> s]
Num(i) == [t |-> "int", i |-> i]
Bool(b) == [t |-> "bool", b |-> b]
Dict(d) == [t |-> "dict", d |-> d]
Absent == [t |-> "absent"]
Raises == [t |-> "raises"]

\* Python truthiness, as `or` and bool() use it.
Truthy(v) ==
    CASE v.t = "none" -> FALSE
      [] v.t = "str" -> v.s # ""
      [] v.t = "int" -> v.i # 0
      [] v.t = "bool" -> v.b
      [] v.t = "dict" -> DOMAIN v.d # {}

PyOr(a, b) == IF Truthy(a) THEN a ELSE b

\* dict.get(key, default): the default only stands in for a missing key.
PyGet(d, key, default) == IF key \in DOMAIN d THEN d[key] ELSE default

\* payload.get("id", {}): whatever is stored under "id"; the .get(...) calls made
\* on it need a dict (a str or None has no attribute 'get').
IdObject(p) == PyGet(p, "id", Dict(<<>>))
IdGetRaises(p) == IdObject(p).t # "dict"

\* Lines 46, 67, 89: payload.get("id", {}).get("_serialized") or payload.get("id")
CoalesceId(p) == PyOr(PyGet(IdObject(p).d, "_serialized", None), PyGet(p, "id", None))

\* int(x) of line 71, on the values `x or 0` can take.
PyInt(v) ==
    CASE v.t = "int" -> v
      [] v.t = "bool" -> Num(IF v.b THEN 1 ELSE 0)
      [] OTHER -> Raises

\* Contact.from_js, lines 44-54.
ContactFromJs(p) ==
    IF IdGetRaises(p) THEN Raises
    ELSE [t |-> "Contact",
          id |-> CoalesceId(p),
          name |-> PyGet(p, "name", None),
          pushname |-> PyGet(p, "pushname", None),
          is_business |-> Bool(Truthy(PyGet(p, "isBusiness", Bool(FALSE)))),
          is_me |-> Bool(Truthy(PyGet(p, "isMe", Bool(FALSE)))),
          raw |-> p]

\* Chat.from_js, lines 65-74.
ChatFromJs(p) ==
    IF IdGetRaises(p) THEN Raises
    ELSE LET unread == PyInt(PyOr(PyGet(p, "unreadCount", None), Num(0)))
         IN  IF unread = Raises THEN Raises
             ELSE [t |-> "Chat",
                   id |-> CoalesceId(p),
                   name |-> PyOr(PyOr(PyGet(p, "name", None), PyGet(p, "formattedTitle", None)), Str("")),
                   unread_count |-> unread,
                   is_group |-> PyGet(p, "isGroup", Bool(FALSE)),
                   raw |-> p]

\* Message.from_js, lines 87-99.
MessageFromJs(p) ==
    IF IdGetRaises(p) THEN Raises
    ELSE [t |-> "Message",
          id |-> CoalesceId(p),
          body |-> PyOr(PyGet(p, "body", None), Str("")),
          from_me |-> Bool(Truthy(PyGet(IdObject(p).d, "fromMe", PyGet(p, "fromMe", Bool(FALSE))))),
          chat_id |-> PyOr(PyGet(IdObject(p).d, "remote", None), PyGet(p, "chatId", None)),
          timestamp |-> PyOr(PyGet(p, "t", None), PyGet(p, "timestamp", None)),
          type |-> PyOr(PyGet(p, "type", None), PyGet(p, "messageType", Str("unknown"))),
          raw |-> p]

FromJs(kind, p) ==
    CASE kind = "Contact" -> ContactFromJs(p)
      [] kind = "Chat" -> ChatFromJs(p)
      [] kind = "Message" -> MessageFromJs(p)

\* The payloads tried: each field absent, null, or one of a few values; the id
\* nested ({_serialized, remote, fromMe}) or flat.
Wid == "123@c.us"
IdValues ==
    {Absent, None, Str(Wid), Str(""), Dict(<<>>),
     Dict([_serialized |-> Str(Wid)]),
     Dict([_serialized |-> Str("")]),
     Dict([_serialized |-> Str(Wid), remote |-> Str("456@c.us"), fromMe |-> Bool(TRUE)])}
TextValues == {Absent, None, Str(""), Str("hi")}
CountValues == {Absent, None, Num(0), Num(2)}
FlagValues == {Absent, Bool(TRUE)}

Field(key, v) == IF v = Absent THEN <<>> ELSE (key :> v)

MakePayload(id, body, name, unread, fromMe) ==
    Field("id", id) @@ Field("body", body) @@ Field("name", name)
        @@ Field("unreadCount", unread) @@ Field("fromMe", fromMe)

NoPayload == <<>>
NoEntity == [t |-> "none"]

\* X.from_js(payload) for one of the three entity classes.
Normalize(kind) ==
    /\ entity = NoEntity
    /\ entity' = FromJs(kind, payload)
    /\ UNCHANGED <<payload, authVars, msgVars, qr_max_retries, handles, store_ready, synced_emitted, qr_retries,
                   engine, initPc, destroyVars, syn, calls, injectedBy, busVars, raised, counters>>

(* ------------------------- message notifications ---------------------- *)
\* window.WWebJS.getMessageModel(msg) of the n-th new message: its id is the
\* message key, with the serialized form, the chat and fromMe.
MessageModel(n, fromMe) ==
    ("id" :> Dict([_serialized |-> Str(ToString(n)), remote |-> Str(Wid),
                   fromMe |-> Bool(fromMe)]))
        @@ ("body" :> Str("hi"))

NotifiesMessageAlways(model) == TRUE

\* Line 175: `!model.id?.fromMe`.
NotifiesMessage(model) == ~Truthy(PyGet(IdObject(model).d, "fromMe", Bool(FALSE)))

\* Lines 174-175: the hook calls one listener makes for a message model.
ListenerCalls(model) ==
    <<[hook |-> "_py_on_message_created", model |-> model]>>
        \o (IF NotifiesMessage(model)
            THEN <<[hook |-> "_py_on_message", model |-> model]>> ELSE <<>>)

RECURSIVE Times(_, _)
Times(calls_, n) == IF n = 0 THEN <<>> ELSE calls_ \o Times(calls_, n - 1)

\* Store.Msg emits 'add' for a new message (isNewMsg, line 172): every
\* listener installed by line 170 runs.
NewMessage(fromMe) ==
    /\ ctxOpen /\ msgListeners > 0 /\ Len(msgs) < MaxMsgs
    /\ hookCalls' = hookCalls \o Times(ListenerCalls(MessageModel(Len(msgs) + 1, fromMe)),
                                       msgListeners)
    /\ msgs' = Append(msgs, fromMe)
    /\ UNCHANGED <<normVars, authVars, qr_max_retries, handles, store_ready, synced_emitted, qr_retries,
                   engine, initPc, destroyVars, syn, calls, injectedBy, busVars, raised, counters>>

\* The loop runs the oldest hook call: Message.from_js(payload), then _emit.
HandleHook(hook, handler, kind) ==
    /\ hookCalls # <<>> /\ Head(hookCalls).hook = hook
    /\ hookCalls' = Tail(hookCalls)
    /\ LET m == MessageFromJs(Head(hookCalls).model)
       IN  IF m = Raises
           THEN /\ raised' = raised \cup {handler}
                /\ UNCHANGED <<log, tasks>>
           ELSE Publish(Emit(Bus, kind, m.id.s), handler)
    /\ UNCHANGED <<normVars, authVars, msgs, qr_max_retries, handles, store_ready, synced_emitted, qr_retries,
                   engine, initPc, destroyVars, syn, calls, injectedBy, subs, counters>>

\* Client._handle_message, lines 208-209.
HandleMessage == HandleHook("_py_on_message", "_handle_message", MESSAGE)

\* Client._handle_message_created, lines 211-212.
HandleMessageCreated ==
    HandleHook("_py_on_message_created", "_handle_message_created", MESSAGE_CREATED)

(* ------------------------ subscriptions and the loop ------------------ *)
NoSubs == [k \in SubKinds |-> <<>>]

\* A subscriber whose handler of every event kind raises.
FailingSubs == [k \in SubKinds |-> IF k = ERROR THEN <<>> ELSE <<"raises">>]

NSubs == Len(subs[AUTHENTICATED]) + Len(subs[READY]) + Len(subs[ERROR])

\* EventEmitter.on(kind, handler), called before initialize() as in example.py;
\* an "error" listener is a plain function.
On(kind, type) ==
    /\ initPc = "idle" /\ NSubs < MaxSubs
    /\ kind = ERROR => type = "sync"
    /\ subs' = [subs EXCEPT ![kind] = Append(@, type)]
    /\ UNCHANGED <<normVars, authVars, msgVars, qr_max_retries, handles, store_ready, synced_emitted, qr_retries, engine,
                   initPc, destroyVars, syn, calls, injectedBy, tasks, log, raised, counters>>

\* The event loop runs a scheduled coroutine handler to its end; handlers that
\* suspend may end in any order.
RunTask(i) ==
    /\ tasks' = [j \in 1..(Len(tasks) - 1) |-> IF j < i THEN tasks[j] ELSE tasks[j + 1]]
    /\ UNCHANGED <<normVars, authVars, msgVars, qr_max_retries, handles, store_ready, synced_emitted, qr_retries, engine,
                   initPc, destroyVars, syn, calls, injectedBy, subs, log, raised, counters>>

(* ---------------------- PickleAuth, called directly ------------------- *)
sessionVars == <<normVars, qr_max_retries, handles, store_ready, synced_emitted, qr_retries,
                 exposed, bridge, qrListening, msgListeners, msgVars, initPc, destroyVars,
                 syn, calls, injectedBy,
                 busVars, raised, counters>>

\* auth.create_context(playwright), once per PickleAuth instance.
AuthCreateContext ==
    /\ auth_strategy = "PickleAuth" /\ ~auth_context /\ ~ctxOpen
    /\ created.inst # nAuth
    /\ \E ok \in BOOLEAN : CreateContext(<<>>, ok)
    /\ ctxOpen' = auth_context'
    /\ UNCHANGED sessionVars

\* The site sets or clears cookies and local-storage items in the live context.
SiteStores ==
    /\ ctxOpen /\ auth_context
    /\ stored' \in StoredStates \ {stored}
    /\ UNCHANGED <<sessionVars, ctxOpen, auth_strategy, browser_args, launches, pickle_file,
                   auth_context, created, save, nAuth>>

\* save_session(), lines 157-158: nothing to do without a context; otherwise
\* line 161 awaits the context's storage state.
SaveStart ==
    /\ auth_strategy = "PickleAuth" /\ ~SaveRunning
    /\ SaveCall
    /\ UNCHANGED <<sessionVars, ctxOpen, auth_strategy, browser_args, launches, pickle_file,
                   auth_context, stored, created, nAuth>>

\* Line 161 returns the storage state or raises (caught at line 165).
SaveState ==
    /\ save.pc = "state"
    /\ \E ok \in EngineAnswers :
         save' = IF ok THEN [save EXCEPT !.pc = "open", !.captured = TRUE,
                                         !.data = StorageState(stored)]
                 ELSE [save EXCEPT !.pc = "failed"]
    /\ UNCHANGED <<sessionVars, ctxOpen, auth_strategy, browser_args, launches, pickle_file,
                   auth_context, stored, created, nAuth>>

\* Line 162: open(pickle_file, "wb") empties the file, or raises.
SaveOpen ==
    /\ save.pc = "open"
    /\ \E ok \in BOOLEAN :
         IF ok THEN /\ pickle_file' = File("empty", NoState)
                    /\ save' = [save EXCEPT !.pc = "dump"]
         ELSE /\ save' = [save EXCEPT !.pc = "failed"]
              /\ UNCHANGED pickle_file
    /\ UNCHANGED <<sessionVars, ctxOpen, auth_strategy, browser_args, launches,
                   auth_context, stored, created, nAuth>>

\* Line 163: pickle.dump writes the snapshot, or stops before or after writing
\* part of it (caught at line 165, as is the process being ended).
SaveDump ==
    /\ save.pc = "dump"
    /\ \E wrote \in {"all", "part", "nothing"} :
         /\ pickle_file' = CASE wrote = "all" -> Complete(save.data)
                             [] wrote = "part" -> File("partial", NoState)
                             [] wrote = "nothing" -> pickle_file
         /\ save' = [save EXCEPT !.pc = IF wrote = "all" THEN "done" ELSE "failed"]
    /\ UNCHANGED <<sessionVars, ctxOpen, auth_strategy, browser_args, launches,
                   auth_context, stored, created, nAuth>>

\* The owner of the context closes it.
AuthClose ==
    /\ auth_context /\ ctxOpen
    /\ ctxOpen' = FALSE
    /\ UNCHANGED <<sessionVars, authVars>>

\* PickleAuth(session_dir), lines 89-94, for the directory of an earlier
\* instance whose browser is gone.
NewAuth ==
    /\ auth_strategy = "PickleAuth" /\ ~ctxOpen /\ ~SaveRunning
    /\ created.inst = nAuth
    /\ nAuth < MaxAuths
    /\ nAuth' = nAuth + 1
    /\ auth_context' = FALSE
    /\ UNCHANGED <<sessionVars, ctxOpen, auth_strategy, browser_args, launches, pickle_file,
                   stored, created, save>>

(* ------------------------------ the system ---------------------------- *)
\* Client.__init__, lines 41-52.
InitClient ==
    /\ qr_max_retries \in 0..MaxRetries
    /\ playwright = FALSE /\ context = FALSE /\ page = FALSE
    /\ store_ready = FALSE /\ synced_emitted = FALSE /\ qr_retries = 0
    /\ ctxOpen = FALSE /\ exposed = {} /\ bridge = FALSE /\ qrListening = FALSE
    /\ msgListeners = 0 /\ hookCalls = <<>> /\ msgs = <<>>
    /\ initPc = "idle" /\ destroyPc = "idle" /\ teardown = <<>>
    /\ held = [context |-> FALSE, playwright |-> FALSE]
    /\ syn = <<>> /\ calls = <<>> /\ injectedBy = <<>>
    /\ tasks = <<>> /\ log = <<>> /\ raised = {}
    /\ nQr = 0 /\ nSynced = 0 /\ syncedIn = 0 /\ nLogout = 0 /\ nState = 0 /\ nDestroy = 0
    /\ launches = <<>> /\ auth_context = FALSE /\ stored = NoStored
    /\ created = NoCreate /\ save = NoSave /\ nAuth = 1

\* ClientOptions' defaults, lines 25 and 28: LocalAuth, no browser arguments.
InitAuth == auth_strategy = "LocalAuth" /\ browser_args = <<>> /\ pickle_file = NoFile

\* A new client, with no subscriber or with one whose handlers all raise.
Init ==
    /\ InitClient /\ InitAuth
    /\ subs \in {NoSubs, FailingSubs} /\ payload = NoPayload /\ entity = NoEntity

\* A new client with the default options (qr_max_retries = 0, line 29) and no
\* subscriber yet.
InitDefault ==
    /\ InitClient /\ InitAuth
    /\ qr_max_retries = 0 /\ subs = NoSubs /\ payload = NoPayload /\ entity = NoEntity

\* A raw payload arrives at a normalizer.
InitNormalize ==
    /\ InitClient /\ InitAuth /\ qr_max_retries = 0 /\ subs = NoSubs
    /\ \E id \in IdValues, body \in TextValues, name \in TextValues,
          unread \in CountValues, fromMe \in FlagValues :
            payload = MakePayload(id, body, name, unread, fromMe)
    /\ entity = NoEntity

Initialize ==
    \/ InitStart \/ InitContext \/ InitPage \/ InitNavigate \/ InitInject
    \/ InitState \/ InitAwait

Synced ==
    \/ HandleSynced
    \/ \E i \in 1..Len(syn) : SyncedStep(i)

\* The session driven by the bridge's notifications.
Next ==
    \/ Initialize
    \/ HandleQr \/ HandleStateChange \/ HandleLogout
    \/ Synced

Spec == Init /\ [][Next]_vars

\* The session with public request operations racing the synced handler.
NextRequests ==
    \/ Initialize
    \/ Synced
    \/ \E op \in Ops : CallStart(op)
    \/ \E i \in 1..Len(calls) : CallStep(i)
    \/ \E i \in 1..Len(calls) : CallEval(i)

SpecRequests == InitDefault /\ [][NextRequests]_vars

\* The client's life: initialize(), possibly failing part-way, the session
\* becoming ready, and destroy().
NextLifecycle ==
    \/ Initialize
    \/ Synced
    \/ DestroyClose \/ DestroyStop \/ DestroyAuth

SpecLifecycle == Init /\ [][NextLifecycle]_vars

\* The event bus: subscribers of each handler type, and the loop running the
\* coroutine handlers that emit() scheduled.
NextBus ==
    \/ \E k \in {AUTHENTICATED, READY, ERROR}, t \in HandlerTypes : On(k, t)
    \/ Initialize
    \/ Synced
    \/ \E i \in 1..Len(tasks) : RunTask(i)

SpecBus == InitDefault /\ [][NextBus]_vars

\* The normalizers, each a pure function of the payload.
NextNormalize == \E kind \in {"Contact", "Chat", "Message"} : Normalize(kind)

SpecNormalize == InitNormalize /\ [][NextNormalize]_vars

\* initialize() up to the creation of the context, over the browser arguments
\* and both auth strategies.
InitArgs ==
    /\ InitClient /\ qr_max_retries = 0 /\ subs = NoSubs
    /\ payload = NoPayload /\ entity = NoEntity
    /\ auth_strategy \in {"LocalAuth", "PickleAuth"}
    /\ browser_args \in ArgLists
    /\ pickle_file = NoFile

NextArgs == InitStart \/ InitContext

SpecArgs == InitArgs /\ [][NextArgs]_vars

\* A PickleAuth over a session directory whose snapshot file is in any state.
InitPickle ==
    /\ InitClient /\ qr_max_retries = 0 /\ subs = NoSubs
    /\ payload = NoPayload /\ entity = NoEntity
    /\ auth_strategy = "PickleAuth"
    /\ browser_args = <<>>
    /\ pickle_file \in SnapshotFiles

NextAuth ==
    \/ AuthCreateContext \/ SiteStores
    \/ SaveStart \/ SaveState \/ SaveOpen \/ SaveDump
    \/ AuthClose \/ NewAuth

SpecAuth == InitPickle /\ [][NextAuth]_vars

\* The session with the page observing new messages.
NextMessages ==
    \/ Initialize
    \/ Synced
    \/ \E fromMe \in BOOLEAN : NewMessage(fromMe)
    \/ HandleMessageCreated \/ HandleMessage

SpecMessages == InitDefault /\ [][NextMessages]_vars

\* A client with PickleAuth over an empty session directory: initialize() on a
\* page that may already be past pairing, the site storing into the profile,
\* and destroy().
InitShutdown ==
    /\ InitClient /\ qr_max_retries = 0 /\ subs = NoSubs
    /\ payload = NoPayload /\ entity = NoEntity
    /\ auth_strategy = "PickleAuth" /\ browser_args = <<>> /\ pickle_file = NoFile

NextShutdown ==
    \/ Initialize
    \/ \E i \in 1..Len(syn) : SyncedStep(i)
    \/ SiteStores
    \/ DestroyClose \/ DestroyStop \/ DestroyAuth
    \/ SaveState \/ SaveOpen \/ SaveDump
    \/ DestroyAuthReturns

SpecShutdown == InitShutdown /\ [][NextShutdown]_vars

\* A client used for more than one session: initialize(), the session's
\* notifications, destroy(), then initialize() again on the same object.
NextRestart ==
    \/ Initialize
    \/ InitAgain
    \/ HandleQr
    \/ Synced
    \/ DestroyClose \/ DestroyStop \/ DestroyAuth

SpecRestart == InitDefault /\ [][NextRestart]_vars

(* ------------------------------ properties ---------------------------- *)
CountKind(l, kind) == Len(SelectSeq(l, LAMBDA e : e.kind = kind))
IsRetryGiveUp(e) == e.kind = DISCONNECTED /\ e.arg = "qr_max_retries"
Min(a, b) == IF a < b THEN a ELSE b

\* C1: the number of QR events equals the number of pairing-reference-change
\* notifications delivered, capped at qr_max_retries when that is positive;
\* with qr_max_retries = 0 every notification gives one QR event and
\* DISCONNECTED('qr_max_retries') is never emitted.
C1_QrPerNotification ==
    /\ qr_max_retries = 0 =>
         /\ CountKind(log, QR) = nQr
         /\ \A j \in 1..Len(log) : ~IsRetryGiveUp(log[j])
    /\ qr_max_retries > 0 => CountKind(log, QR) = Min(nQr, qr_max_retries)

\* Three notifications before the session is synced, under a limit of 2: two
\* QR events.
C1_Witness ==
    /\ nQr = 3 /\ ~synced_emitted
    /\ qr_max_retries = 2
    /\ CountKind(log, QR) = 2

\* C2: with qr_max_retries = N > 0, the first N notifications give N QR events,
\* notification N+1 gives DISCONNECTED('qr_max_retries') right after them, no
\* later notification gives a QR event, and _handle_qr never raises.
C2_RetryGiveUp ==
    LET sel == SelectSeq(log, LAMBDA e : e.kind = QR \/ IsRetryGiveUp(e))
        N == qr_max_retries
    IN  /\ "_handle_qr" \notin raised
        /\ (N > 0 /\ nQr > N) =>
             /\ Len(sel) = nQr
             /\ \A j \in 1..Len(sel) : sel[j].kind = (IF j <= N THEN QR ELSE DISCONNECTED)
        /\ (N > 0 /\ nQr = N + 1) => CountKind(log, QR) = N /\ CountKind(sel, DISCONNECTED) = 1

\* N + 2 notifications with N = 2, delivered to a client whose subscribers raise.
C2_Witness ==
    /\ qr_max_retries = 2 /\ nQr = 4
    /\ subs = FailingSubs
    /\ CountKind(log, DISCONNECTED) = 2

\* C3: however many synced notifications arrive, at most one _handle_synced
\* passes the gate, AUTHENTICATED and READY are emitted at most once, the synced
\* path injects the store at most once, and once that _handle_synced has
\* returned each has happened exactly once (the one injection being that of a
\* request operation if one bootstrapped the store first).
C3_SyncedOnce ==
    /\ Len(syn) <= 1
    /\ CountKind(log, AUTHENTICATED) <= 1
    /\ CountKind(log, READY) <= 1
    /\ Len(SelectSeq(injectedBy, LAMBDA w : w = "synced")) <= 1
    /\ \A i \in 1..Len(syn) : syn[i].pc = "done" =>
         /\ CountKind(log, AUTHENTICATED) = 1
         /\ CountKind(log, READY) = 1
         /\ Len(injectedBy) >= 1
         /\ calls = <<>> => injectedBy = <<"synced">>

\* _inject called _handle_synced directly, and two change:hasSynced callbacks
\* arrived while it was suspended in the store bootstrap.
C3_Witness ==
    /\ Len(syn) = 1 /\ syn[1].via = "inject" /\ syn[1].pc = "b165"
    /\ nSynced = 2

\* C4: the observation layer is injected at most once per page, whichever call
\* paths trigger _bootstrap_store and however they interleave.
C4_SingleInjection == Len(injectedBy) <= 1

\* C5: AUTHENTICATED and READY are only in the log once the bootstrap flag is
\* set, every READY has an AUTHENTICATED before it, and a _handle_synced that
\* returned has emitted both.
C5_BootstrapThenAuthThenReady ==
    /\ \A j \in 1..Len(log) :
         /\ log[j].kind \in {AUTHENTICATED, READY} => store_ready
         /\ log[j].kind = READY => \E i \in 1..(j - 1) : log[i].kind = AUTHENTICATED
    /\ \A i \in 1..Len(syn) : syn[i].pc = "done" =>
         /\ store_ready
         /\ \E j \in 1..Len(log) : log[j].kind = READY

\* The first synced notification came from the bridge, its handler did the
\* bootstrap itself and has emitted both events.
C5_Witness ==
    /\ Len(syn) = 1 /\ syn[1].via = "bridge" /\ syn[1].pc = "done"
    /\ injectedBy = <<"synced">>
    /\ Len(log) = 2 /\ log[1].kind = AUTHENTICATED /\ log[2].kind = READY

\* C6: every emission calls all the handlers subscribed to its kind, in
\* subscription order, whether or not one of them raises, and no handler's
\* exception leaves _emit.
C6_HandlerIsolation ==
    /\ \A j \in 1..Len(log) : log[j].ran = [i \in 1..log[j].n |-> i]
    /\ "_handle_synced" \in raised => \E i \in 1..Len(syn) : syn[i].pc = "raised"

\* C7: when _emit has returned, no coroutine handler of that emission is still
\* pending; so none of an AUTHENTICATED emission is pending once READY is in
\* the log.
C7_EmitAwaitsCoroutines == tasks = <<>>

\* C8: destroy() never raises, and attempts its steps in the order close,
\* stop, auth: close if a context was held, stop if the engine was started,
\* auth always, each whatever the outcome of the steps before it.
C8_DestroyBestEffort ==
    LET steps == [j \in 1..Len(teardown) |-> teardown[j].step]
        close == IF held.context THEN <<"close">> ELSE <<>>
        stop == IF held.playwright THEN <<"stop">> ELSE <<>>
    IN  /\ "destroy" \notin raised
        /\ destroyPc = "stop" => steps = close
        /\ destroyPc = "auth" => steps = close \o stop
        /\ (destroyPc = "idle" /\ nDestroy > 0) => steps = close \o stop \o <<"auth">>

\* A second destroy(), after an initialize() that failed before the page
\* existed: closing the context failed, and the engine was still stopped and
\* the auth strategy's destroy() still called.
C8_Witness ==
    /\ nDestroy = 2 /\ destroyPc = "idle"
    /\ initPc = "failed" /\ ~page
    /\ Len(teardown) = 3 /\ ~teardown[1].ok /\ teardown[2].ok

\* C9: a request operation evaluates only with the store bootstrapped, and on a
\* null result returns None (an empty list for get_chats and get_contacts).
C9_NullGivesNoneOrEmpty ==
    \A i \in 1..Len(calls) :
        /\ calls[i].pc = "eval" => store_ready
        /\ (calls[i].pc = "done" /\ calls[i].res = "null") =>
             calls[i].out = (IF calls[i].op \in ListOps THEN "empty" ELSE "None")

\* C10: a payload whose id is {_serialized: s} and one whose id is the string s
\* both give an entity whose id is s.
C10_IdCoalesced ==
    LET id == PyGet(payload, "id", None)
        s == IF id.t = "str" THEN id
             ELSE IF id.t = "dict" /\ "_serialized" \in DOMAIN id.d THEN id.d["_serialized"]
             ELSE None
    IN  (entity # NoEntity /\ s.t = "str" /\ s.s # "") =>
            (entity # Raises /\ entity.id = s)

\* C11: over payloads in which any of the read fields is absent (and those
\* present hold a value of their kind), a normalizer returns an entity without
\* raising, no field of the entity is None, and raw holds the payload.
C11_TotalWithDefaults ==
    LET present == \A k \in DOMAIN payload :
                       /\ payload[k] # None
                       /\ k = "id" => payload[k].t = "dict" /\ "_serialized" \in DOMAIN payload[k].d
    IN  (entity # NoEntity /\ present) =>
            /\ entity # Raises
            /\ \A f \in DOMAIN entity \ {"t", "raw"} : entity[f] # None
            /\ entity.raw = payload

\* C12: the arguments every context is launched with are those initialize()
\* passes (browser_args, then the AutomationControlled flag if no argument has
\* it), each exactly once, in the order of their first occurrence; so
\* ['--a', '--b', '--a'] is launched as ['--a', '--b', flag].
C12_ArgsDeduped ==
    \A k \in 1..Len(launches) :
        LET got == launches[k]
            given == {browser_args[i] : i \in 1..Len(browser_args)}
            First(a) == CHOOSE i \in 1..Len(browser_args) :
                            /\ browser_args[i] = a
                            /\ \A j \in 1..(i - 1) : browser_args[j] # a
            Pos(a) == IF a \in given THEN First(a) ELSE Len(browser_args) + 1
        IN  /\ \A i, j \in 1..Len(got) : i < j => Pos(got[i]) < Pos(got[j])
            /\ given \subseteq {got[i] : i \in 1..Len(got)}
            /\ {got[i] : i \in 1..Len(got)} \subseteq given \cup {BlinkFlag}
            /\ \E i \in 1..Len(got) : ContainsBlink(got[i])
            /\ browser_args = <<"--a", "--b", "--a">> => got = <<"--a", "--b", BlinkFlag>>

\* PickleAuth launched a context for arguments that repeat the flag itself
\* around another argument.
C12_Witness ==
    /\ auth_strategy = "PickleAuth"
    /\ browser_args = <<BlinkFlag, "--a", BlinkFlag>>
    /\ launches = <<<<BlinkFlag, "--a">>>>

\* C13: when the snapshot file is missing, empty, cut short, unreadable or does
\* not decode to a storage state, create_context returns a context whenever
\* the browser can be launched, and replays no cookie and no local-storage
\* entry.
C13_BadSnapshotIsNoSnapshot ==
    (created.inst > 0 /\ created.file.bytes # "complete" /\ created.engineOk) =>
        /\ created.returned
        /\ created.inst = nAuth => auth_context
        /\ created.replayed.cookies = {}
        /\ created.replayed.items = {}

\* A save stopped part-way, and the next PickleAuth of that directory created
\* its context over the partial file.
C13_Witness ==
    /\ created.inst = 2 /\ created.returned
    /\ created.file.bytes = "partial"
    /\ save.pc = "failed" /\ save.inst = 1

\* C14: a context created by a later PickleAuth over the snapshot that
\* save_session() wrote replays the cookies and the per-origin local-storage
\* entries that the snapshot captured.
C14_SnapshotRoundTrip ==
    (/\ save.pc = "done" /\ created.inst > save.inst
     /\ created.returned /\ created.file = Complete(save.data)) =>
        /\ created.replayed.cookies = SnapshotCookies(save.data)
        /\ created.replayed.items = SnapshotItems(save.data)

\* C15: from the moment save_session() is called, the snapshot file is either
\* what it was before the call or the complete new snapshot.
C15_AtomicSave ==
    save.pc \notin {"idle", "skipped"} =>
        \/ pickle_file = save.prev
        \/ save.captured /\ pickle_file = Complete(save.data)

\* C16: every logout notification gives exactly one DISCONNECTED event
\* carrying its reason, whatever the session's state, and _handle_logout
\* never raises.
C16_LogoutDisconnects ==
    /\ Len(SelectSeq(log, LAMBDA e : e.kind = DISCONNECTED /\ e.arg = "LOGOUT")) = nLogout
    /\ "_handle_logout" \notin raised

\* Two logouts after the QR retries were exhausted, each with its event.
C16_Witness ==
    /\ nLogout = 2
    /\ \E j \in 1..Len(log) : IsRetryGiveUp(log[j])
    /\ Len(log) >= 2
    /\ log[Len(log)].arg = "LOGOUT" /\ log[Len(log) - 1].arg = "LOGOUT"

\* C17: each new message the page observed has at most one MESSAGE_CREATED
\* event, and at most one MESSAGE event if it is not fromMe and none if it
\* is; once its hook calls are handled it has exactly those; and a message
\* event is only emitted with both hooks registered and the store bootstrapped.
C17_MessageEvents ==
    LET Ev(kind, n) == Len(SelectSeq(log, LAMBDA e : e.kind = kind /\ e.arg = ToString(n)))
        Pending(n) == \E j \in 1..Len(hookCalls) :
                          hookCalls[j].model["id"].d["_serialized"].s = ToString(n)
        Expected(n) == IF msgs[n] THEN 0 ELSE 1
    IN  /\ \A n \in 1..Len(msgs) :
             /\ Ev(MESSAGE_CREATED, n) <= 1
             /\ Ev(MESSAGE, n) <= Expected(n)
             /\ ~Pending(n) => Ev(MESSAGE_CREATED, n) = 1 /\ Ev(MESSAGE, n) = Expected(n)
        /\ CountKind(log, MESSAGE_CREATED) + CountKind(log, MESSAGE)
              = Len(SelectSeq(log, LAMBDA e : e.kind \in {MESSAGE, MESSAGE_CREATED}
                                              /\ \E n \in 1..Len(msgs) : e.arg = ToString(n)))
        /\ (msgs # <<>> \/ hookCalls # <<>>) =>
             /\ {"_py_on_message", "_py_on_message_created"} \subseteq exposed
             /\ store_ready
             /\ msgListeners = 1

\* A message sent by the local identity and one received, both handled.
C17_Witness ==
    /\ msgs = <<TRUE, FALSE>> /\ hookCalls = <<>>
    /\ CountKind(log, MESSAGE_CREATED) = 2
    /\ CountKind(log, MESSAGE) = 1

Handlers ==
    {"_handle_qr", "_handle_state_change", "_handle_synced", "_handle_logout",
     "_handle_message", "_handle_message_created"}

\* C18: no bridge-notification handler raises to its caller, whatever step
\* inside it fails.
C18_HandlersNeverRaise ==
    /\ raised \cap Handlers = {}
    /\ \A i \in 1..Len(syn) : syn[i].pc # "raised"

\* C19: after a DISCONNECTED event no QR, AUTHENTICATED or READY event is
\* emitted.
C19_DisconnectedIsTerminal ==
    \A i, j \in 1..Len(log) :
        (i < j /\ log[i].kind = DISCONNECTED) => log[j].kind \notin {QR, AUTHENTICATED, READY}

\* C20: while _store_ready is set both message hooks are registered and the
\* message listener is installed, once; a bootstrap that returned leaves it
\* set; it is only set by the step in which a caller's own last injection
\* call answers, is left as it was by a bootstrap step that fails, and is
\* never cleared.
C20_BootstrapFlag ==
    /\ [](/\ store_ready =>
               /\ {"_py_on_message", "_py_on_message_created"} \subseteq exposed
               /\ msgListeners = 1
               /\ injectedBy # <<>>
          /\ ~store_ready => msgListeners = 0
          /\ \A i \in 1..Len(syn) : syn[i].pc = "done" => store_ready
          /\ \A i \in 1..Len(calls) : calls[i].pc = "eval" => store_ready)
    /\ [][/\ store_ready => store_ready'
          /\ (~store_ready /\ store_ready') =>
               \/ \E i \in 1..Len(syn) : syn[i].pc = "b168" /\ syn'[i].pc = "done"
               \/ \E i \in 1..Len(calls) : calls[i].pc = "b168" /\ calls'[i].pc = "eval"
          /\ (\/ \E i \in 1..Len(syn) : syn[i].pc \in BootPcs /\ syn'[i].pc = "raised"
              \/ \E i \in 1..Len(calls) : calls[i].pc \in BootPcs /\ calls'[i].pc = "done")
               => store_ready' = store_ready]_vars

\* The synced handler's bootstrap failed after its first injection, the flag
\* stayed unset, and a request operation's bootstrap then set it.
C20_Witness ==
    /\ store_ready
    /\ injectedBy = <<"synced", "call">>
    /\ \E i \in 1..Len(syn) : syn[i].pc = "raised"
    /\ \E i \in 1..Len(calls) : calls[i].pc = "eval"

\* C23: once the synced-emitted flag is set, a pairing-reference-change
\* notification emits nothing (no QR, no DISCONNECTED('qr_max_retries')) and
\* leaves the QR-retry counter as it was.
C23_NoQrAfterSynced ==
    [][(synced_emitted /\ nQr' = nQr + 1) => (log' = log /\ qr_retries' = qr_retries)]_vars

\* C21: PickleAuth.destroy() calls save_session() first, never raises to its
\* caller, and when it returns the strategy holds no context handle any more.
C21_DestroySavesThenDiscards ==
    /\ [](/\ "destroy" \notin raised
          /\ \A j \in 1..Len(teardown) : teardown[j].step = "auth" => teardown[j].ok
          /\ destroyPc = "saving" => save.pc # "idle")
    /\ [][(destroyPc = "saving" /\ destroyPc' = "idle") => ~auth_context']_vars

\* C22: when Client.destroy() on a READY session reaches save_session(), the
\* context whose storage state is captured is still open; and once destroy()
\* has returned, the snapshot file holds the state captured at shutdown.
C22_DestroySavesLiveContext ==
    /\ (destroyPc = "saving" /\ save.pc = "state" /\ CountKind(log, READY) > 0) => ctxOpen
    /\ (/\ destroyPc = "idle" /\ nDestroy > 0
        /\ held.context /\ auth_context
        /\ CountKind(log, READY) > 0) =>
           /\ save.pc = "done"
           /\ pickle_file = Complete(save.data)

\* C24: no step of destroy() changes _store_ready, _synced_emitted or
\* _qr_retries, or clears page.  Consequently, on a client that was READY and
\* has been destroyed, a synced notification (also one of a later session)
\* emits nothing and starts no _handle_synced; and no AUTHENTICATED or READY
\* is emitted, ExposeStore is evaluated on no page, no bootstrap hook is
\* exposed and no message listener is installed from then on.
C24_FlagsSurviveDestroy ==
    /\ [][(destroyPc' # destroyPc \/ nDestroy' # nDestroy) =>
             UNCHANGED <<store_ready, synced_emitted, qr_retries, page>>]_vars
    /\ [][(nDestroy > 0 /\ CountKind(log, READY) > 0 /\ nSynced' = nSynced + 1) =>
             UNCHANGED <<log, tasks, syn, injectedBy, exposed, msgListeners>>]_vars
    /\ [][(nDestroy > 0 /\ CountKind(log, READY) > 0) =>
             /\ CountKind(log', AUTHENTICATED) = CountKind(log, AUTHENTICATED)
             /\ CountKind(log', READY) = CountKind(log, READY)
             /\ injectedBy' \in {injectedBy, <<>>}
             /\ msgListeners' \in {msgListeners, 0}
             /\ exposed' \subseteq exposed \cup InjectHooks]_vars

\* A second session of a client that was READY and destroyed: the new page is
\* up, a synced notification of the new session has been handled, and the page
\* has no store bootstrap.
C24_Witness ==
    /\ Len(launches) = 2 /\ syncedIn = 2
    /\ nDestroy = 1 /\ Len(teardown) > 0 /\ teardown[1] = [step |-> "close", ok |-> TRUE]
    /\ initPc = "done" /\ ctxOpen /\ bridge /\ page
    /\ store_ready /\ synced_emitted
    /\ CountKind(log, READY) = 1 /\ CountKind(log, AUTHENTICATED) = 1
    /\ injectedBy = <<>> /\ msgListeners = 0 /\ exposed = InjectHooks

====
